---------------------------- MODULE Spec2Model ----------------------------
(***************************************************************************)
(* usePageContentNavigation (src/src/index.ts): a React hook that          *)
(* catalogues the content sections it is given into navigation items and   *)
(* keeps the index of the section in view up to date from scroll events.   *)
(*                                                                         *)
(* The hook's state cells (React.useState), its props, the memoised        *)
(* scroll handler (React.useCallback) and window's scroll listeners are    *)
(* the variables.  One action is one thing the host does (mounting,        *)
(* passing new props, dispatching a scroll event, calling the exported     *)
(* setter) together with every render and effect React runs because of it. *)
(*                                                                         *)
(* Strings are sequences of one-character strings.  Lengths in pixels are  *)
(* integers; viewportBoundary is counted in tenths (3 is 0.3).             *)
(***************************************************************************)
EXTENDS Integers, Sequences, FiniteSets, TLC

\* ------------------------------------------------------------------ bounds

\* Longest generated section title.
MaxTitleLen == 2
\* Longest generated list of sections.
MaxChildren == 2
\* Largest window.scrollY of a scroll event.
MaxScrollY == 2
\* Largest index handed to the exported setter (the smallest is -1).
MaxIndexArg == 3

\* ------------------------------------------------------------ JS values

Undef == [t |-> "undefined", s |-> <<>>]
Num == [t |-> "number", s |-> <<>>]
Str(s) == [t |-> "string", s |-> s]

\* typeof v === 'string'
IsString(v) == v.t = "string"

\* JavaScript truthiness of a prop value: undefined and '' are falsy.
Truthy(v) == \/ v.t = "number"
             \/ v.t = "element"
             \/ (v.t = "string" /\ v.s # <<>>)

\* String.prototype.toLowerCase, on the alphabet of the model.
LowerChar(c) == CASE c = "A" -> "a"
                  [] c = "B" -> "b"
                  [] OTHER -> c

ToLowerCase(s) == [i \in 1..Len(s) |-> LowerChar(s[i])]

\* String.prototype.replaceAll with one-character pattern and replacement.
RECURSIVE ReplaceAll(_, _, _)
ReplaceAll(s, from, to) ==
    IF s = <<>> THEN <<>>
    ELSE <<IF Head(s) = from THEN to ELSE Head(s)>> \o ReplaceAll(Tail(s), from, to)

SectionSuffix == <<"-", "s", "e", "c", "t", "i", "o", "n">>

\* Line 201 without toLowerCase().
DerivedIdKeepsCase(title) == ReplaceAll(title, " ", "-") \o SectionSuffix

\* title.toLowerCase().replaceAll(' ', '-') + '-section'
DerivedId(title) == ReplaceAll(ToLowerCase(title), " ", "-") \o SectionSuffix

\* -------------------------------------------------------------- elements

\* A nested element (such as a header) with its props.
Header(title, label) ==
    [t |-> "element", s |-> <<>>, props |-> [title |-> title, label |-> label]]

\* A section element: its props.
Section(id, title, label, header) ==
    [props |-> [id |-> id, title |-> title, label |-> label, header |-> header]]

\* React.cloneElement(child, { id }).
CloneWithId(child, id) == [child EXCEPT !.props.id = id]

TitlePropNames == {"title", "label"}
\* diveByPropName: '' stands for the option left out (both are falsy).
NoDive == ""
DivePropNames == {NoDive, "header"}

TitleAb == <<"A", " ", "b">>
TitleC == <<"c">>
IdX == <<"x">>

Plain == Section(Undef, Str(TitleAb), Undef, Undef)
WithId == Section(Str(IdX), Str(TitleC), Str(<<"d">>), Undef)
Both == Section(Undef, Str(TitleC), Undef, Header(Str(TitleAb), Undef))
NestedWithId == Section(Str(IdX), Undef, Undef, Header(Str(TitleC), Undef))
NestedOnly == Section(Undef, Undef, Undef, Header(Str(TitleAb), Undef))
NotAString == Section(Undef, Num, Undef, Undef)

\* The section lists the hook is run on.
SectionLists ==
    { <<>>,
      <<Plain>>,
      <<Plain, WithId, Both>>,
      <<NestedWithId, Both>>,
      <<NestedWithId, NestedOnly>>,
      <<WithId, NotAString>> }

\* The section lists a later render passes.
LaterSectionLists == { <<WithId>>, <<Plain, WithId>> }

\* For the catalog builder: every title over a small alphabet, and every short
\* list of sections with such a title or with an id of their own.
SeqsUpTo(S, n) == UNION { [1..k -> S] : k \in 0..n }
TitleAlphabet == {"A", " "}
Titles == SeqsUpTo(TitleAlphabet, MaxTitleLen)
EmptyId == Section(Str(<<>>), Str(TitleAb), Undef, Undef)
TitledSections == { Section(Undef, Str(title), Undef, Undef) : title \in Titles }
BuildLists ==
    SeqsUpTo(TitledSections \cup {WithId}, MaxChildren)
        \cup SectionLists
        \cup { <<EmptyId, Plain>>, <<NotAString, WithId>>,
                <<Both, NestedOnly, Plain>>, <<WithId, Plain>> }


\* --------------------------------------------------------------- errors

NoError == [name |-> "none", index |-> -1, propName |-> ""]
SectionTitlePropError(index, propName) ==
    [name |-> "SectionTitlePropError", index |-> index, propName |-> propName]
ViewportBoundaryError ==
    [name |-> "ViewportBoundaryError", index |-> -1, propName |-> ""]
IndexOutOfBoundsError(index) ==
    [name |-> "IndexOutOfBoundsError", index |-> index, propName |-> ""]
\* The runtime's TypeError (a property read on undefined or null, a call of
\* something that is no function).
TypeError == [name |-> "TypeError", index |-> -1, propName |-> ""]

\* ------------------------------------------------------ catalog builder

\* Lines 190-191 testing for a title that is there, of whatever type.
MissingTitleAnyType(child, titleProp, dive) ==
    IF dive # NoDive
    THEN LET element == child.props[dive]
         IN  ~Truthy(element) \/ element.props[titleProp] = Undef
    ELSE child.props[titleProp] = Undef

\* Lines 190-191: the element whose title prop is validated fails the test.
MissingTitle(child, titleProp, dive) ==
    IF dive # NoDive
    THEN LET element == child.props[dive]
         IN  ~Truthy(element) \/ ~IsString(element.props[titleProp])
    ELSE ~IsString(child.props[titleProp])

\* The index (from 0) of the first child the validating forEach throws on,
\* -1 when it throws on none.
RECURSIVE FirstMissingTitle(_, _, _, _)
FirstMissingTitle(cs, titleProp, dive, index) ==
    IF cs = <<>> THEN -1
    ELSE IF MissingTitle(Head(cs), titleProp, dive) THEN index
    ELSE FirstMissingTitle(Tail(cs), titleProp, dive, index + 1)

\* Lines 196-203: the callback of the map throws (title.toLowerCase on a title
\* that is no string) when the id is falsy and the child's own title prop is
\* no string.
ItemThrows(child, titleProp) ==
    ~Truthy(child.props.id) /\ ~IsString(child.props[titleProp])

\* Line 201 without `props.id ||`.
ItemIgnoresId(child, titleProp) ==
    LET title == child.props[titleProp]
    IN  [label |-> title, scrollTo |-> Str(DerivedId(title.s))]

\* Lines 196-203: the navigation item of one child.
Item(child, titleProp) ==
    LET title == child.props[titleProp]
    IN  [label |-> title,
         scrollTo |-> IF Truthy(child.props.id)
                      THEN child.props.id
                      ELSE Str(DerivedId(title.s))]

\* Lines 195-204.
Items(cs, titleProp) == [i \in 1..Len(cs) |-> Item(cs[i], titleProp)]

\* Lines 210-217.
MutatedChildren(cs, items) ==
    [i \in 1..Len(cs) |->
        IF ~Truthy(cs[i].props.id) THEN CloneWithId(cs[i], items[i].scrollTo)
        ELSE cs[i]]

\* ------------------------------------------------------------ the hook

\* viewportBoundary in tenths; line 120 accepts 0..10.
ValidBoundaries == {0, 3, 10}
InvalidBoundaries == {-1, 15}
Offsets == {0, 1}

VARIABLES
    \* props
    children, enabled, viewportBoundary, contentTopOffset,
    sectionTitlePropName, diveByPropName,
    \* React.useState cells
    currentIndex, previousScrollTop, childrenAsReactElement, navItems,
    \* the memoised handleScroll: what the closure captured
    handleScroll,
    \* window's scroll listeners, and whether the listener effect's last run
    \* returned a cleanup
    listeners, cleanup,
    \* "init" before the first render, "mounted", "crashed" once a render or an
    \* effect has thrown and React has unmounted the component
    status,
    \* what the last operation threw
    thrown,
    \* the last operation: its name, its argument, currentIndex before it, and
    \* for a scroll event what is left of the document below the viewport
    last

vars == <<children, enabled, viewportBoundary, contentTopOffset,
          sectionTitlePropName, diveByPropName, currentIndex,
          previousScrollTop, childrenAsReactElement, navItems, handleScroll,
          listeners, cleanup, status, thrown, last>>

\* The variables as one record, for the operators below.
Now ==
    [children |-> children, enabled |-> enabled,
     viewportBoundary |-> viewportBoundary,
     contentTopOffset |-> contentTopOffset,
     sectionTitlePropName |-> sectionTitlePropName,
     diveByPropName |-> diveByPropName,
     currentIndex |-> currentIndex, previousScrollTop |-> previousScrollTop,
     childrenAsReactElement |-> childrenAsReactElement, navItems |-> navItems,
     handleScroll |-> handleScroll, listeners |-> listeners,
     cleanup |-> cleanup, status |-> status, thrown |-> thrown]

Becomes(w) ==
    /\ children' = w.children
    /\ enabled' = w.enabled
    /\ viewportBoundary' = w.viewportBoundary
    /\ contentTopOffset' = w.contentTopOffset
    /\ sectionTitlePropName' = w.sectionTitlePropName
    /\ diveByPropName' = w.diveByPropName
    /\ currentIndex' = w.currentIndex
    /\ previousScrollTop' = w.previousScrollTop
    /\ childrenAsReactElement' = w.childrenAsReactElement
    /\ navItems' = w.navItems
    /\ handleScroll' = w.handleScroll
    /\ listeners' = w.listeners
    /\ cleanup' = w.cleanup
    /\ status' = w.status
    /\ thrown' = w.thrown

\* Lines 123-171: the closure React.useCallback makes in a render: the state
\* and props of that render, which the handler reads when it runs.
Closure(w) ==
    [currentIndex |-> w.currentIndex,
     previousScrollTop |-> w.previousScrollTop,
     navItems |-> w.navItems,
     viewportBoundary |-> w.viewportBoundary,
     contentTopOffset |-> w.contentTopOffset]

\* window.removeEventListener('scroll', h): the first h of the list goes.
RECURSIVE RemoveListener(_, _)
RemoveListener(ls, h) ==
    IF ls = <<>> THEN <<>>
    ELSE IF Head(ls) = h THEN Tail(ls)
    ELSE <<Head(ls)>> \o RemoveListener(Tail(ls), h)

\* Line 178 left out: the effect returns no cleanup.
ListenerCleanupMissing(w, old) == w.listeners

\* Line 178: the cleanup the listener effect returned, for the handler `old`
\* it had added.
ListenerCleanup(w, old) ==
    IF w.cleanup THEN RemoveListener(w.listeners, old) ELSE w.listeners

\* Lines 174-179: the listener effect runs again (handleScroll is a new
\* function): the last run's cleanup, then the effect with the new handler.
ListenerEffect(w, old) ==
    IF ~w.enabled
    THEN [w EXCEPT !.listeners = ListenerCleanup(w, old), !.cleanup = FALSE]
    ELSE [w EXCEPT !.listeners = Append(ListenerCleanup(w, old), w.handleScroll),
                   !.cleanup = TRUE]

\* A render or an effect threw: React unmounts the component, which runs the
\* cleanups of its effects.  The state cells keep what they last held.
Unmount(w, error) ==
    [w EXCEPT !.status = "crashed", !.thrown = error,
              !.listeners = ListenerCleanup(w, w.handleScroll),
              !.cleanup = FALSE]

\* The render after a change of currentIndex, previousScrollTop or navItems
\* (the deps of handleScroll, line 170): a new handleScroll, so the listener
\* effect runs (its deps, line 179); the items effect does not (line 219).
Rerender(w) ==
    ListenerEffect([w EXCEPT !.handleScroll = Closure(w)], w.handleScroll)

\* Lines 182-219: the items effect runs.
ItemsEffect(w) ==
    LET cs == w.childrenAsReactElement
        bad == FirstMissingTitle(cs, w.sectionTitlePropName, w.diveByPropName, 0)
        items == Items(cs, w.sectionTitlePropName)
    IN  IF ~w.enabled THEN w
        ELSE IF bad # -1
        THEN Unmount(w, SectionTitlePropError(bad, w.sectionTitlePropName))
        ELSE IF \E i \in 1..Len(cs) : ItemThrows(cs[i], w.sectionTitlePropName)
        THEN Unmount(w, TypeError)
        ELSE Rerender([w EXCEPT !.navItems = items,
                                !.childrenAsReactElement = MutatedChildren(cs, items)])

\* Line 120 with `<=` and `>=` for `<` and `>`.
BoundaryOutOfRangeExclusive(b) == b <= 0 \/ b >= 10

\* Line 120, in tenths.
BoundaryOutOfRange(b) == b < 0 \/ b > 10

\* A render with new props: line 120 throws on a bad boundary; handleScroll
\* stays the memoised one (none of its deps is a prop), so the listener effect
\* does not run; the items effect runs when children or enabled changed.
RenderProps(w, itemsDeps) ==
    IF BoundaryOutOfRange(w.viewportBoundary)
    THEN Unmount(w, ViewportBoundaryError)
    ELSE IF itemsDeps THEN ItemsEffect(w) ELSE w

\* The first render and its effects: both effects run, the listener effect
\* first.
FirstRender(w) ==
    IF BoundaryOutOfRange(w.viewportBoundary)
    THEN [w EXCEPT !.status = "crashed", !.thrown = ViewportBoundaryError]
    ELSE ItemsEffect(ListenerEffect([w EXCEPT !.status = "mounted",
                                              !.handleScroll = Closure(w)],
                                    w.handleScroll))

\* ------------------------------------------------------- scroll events

\* What a scroll event finds: window.scrollY, window.innerHeight,
\* document.body.scrollHeight, and what document.getElementById gives for the
\* neighbour's id: null (found = FALSE) or an element with its offsetTop and
\* the bottom of its getBoundingClientRect().
InnerHeights == {10}
Rects == { [found |-> FALSE, offsetTop |-> 0, bottom |-> 0],
           [found |-> TRUE, offsetTop |-> 2, bottom |-> 6],
           [found |-> TRUE, offsetTop |-> 4, bottom |-> 7],
           [found |-> TRUE, offsetTop |-> 6, bottom |-> 10] }
ScrollHeights(y, h) == {y + h, y + h + 5}

ScrollEvents ==
    UNION { { [scrollY |-> y, innerHeight |-> h, scrollHeight |-> d, rect |-> r] :
                d \in ScrollHeights(y, h), r \in Rects } :
            y \in 0..MaxScrollY, h \in InnerHeights }

\* Line 138.
ScrollDirection(c, ev) ==
    IF ev.scrollY < c.previousScrollTop THEN "up" ELSE "down"

\* Lines 142-145: a neighbour in the direction of the scroll exists.
CanStep(c, ev) ==
    \/ ScrollDirection(c, ev) = "up" /\ c.currentIndex > 0
    \/ ScrollDirection(c, ev) = "down" /\ c.currentIndex < Len(c.navItems) - 1

\* The model's name for contentTopOffset = 2 ** 70, a number like any other to
\* line 103.  The numbers next to it in the 64-bit floating point of
\* JavaScript are 2 ** 18 apart, so x - 2 ** 70 is rounded to -(2 ** 70) for
\* every x that the events of the model give.
HugeOffset == 2 ^ 20

\* Lines 154-155: `x - contentTopOffset` for x in tenths of a pixel, in
\* tenths.  It is exact for the small whole numbers of the model.
MinusOffset(x, offset) ==
    IF offset = HugeOffset THEN -HugeOffset ELSE x - 10 * offset

\* Line 155 without `- contentTopOffset`.
CrossedDownOffsetOnce(c, ev) ==
    MinusOffset(10 * (ev.rect.offsetTop - ev.scrollY), c.contentTopOffset)
        <= ev.innerHeight * c.viewportBoundary

\* Lines 152-156, in tenths of a pixel.
CrossedDown(c, ev) ==
    MinusOffset(10 * (ev.rect.offsetTop - ev.scrollY), c.contentTopOffset)
        <= MinusOffset(ev.innerHeight * c.viewportBoundary, c.contentTopOffset)

\* Line 162 with `viewportBoundary` for `(1 - viewportBoundary)`.
CrossedUpSameBoundary(c, ev) ==
    10 * ev.rect.bottom >= ev.innerHeight * c.viewportBoundary

\* Lines 159-163, in tenths of a pixel.
CrossedUp(c, ev) ==
    10 * ev.rect.bottom >= ev.innerHeight * (10 - c.viewportBoundary)

\* Line 128 left out.
AtTopMissing(ev) == FALSE

\* Line 128.
AtTop(ev) == ev.scrollY = 0

\* Lines 130-134 left out.
AtBottomMissing(ev) == FALSE

\* Line 133 with `<=` for `===`.
AtBottomOrAbove(ev) == ev.scrollY + ev.innerHeight <= ev.scrollHeight

\* Lines 130-133.
AtBottom(ev) == ev.scrollY + ev.innerHeight = ev.scrollHeight

\* Line 134 without the `- 1`.
LastIndexOffByOne(c) == Len(c.navItems)

\* Line 134.
LastIndex(c) == Len(c.navItems) - 1

\* Lines 124-169: the handler with closure c on event ev: the index it hands to
\* setCurrentIndex (c.currentIndex when it calls it not), whether it reaches
\* setPreviousScrollTop, and what it throws.
HandleScroll(c, ev) ==
    LET done(index) == [index |-> index, recorded |-> TRUE, thrown |-> NoError]
    IN  IF AtTop(ev) THEN done(0)
        ELSE IF AtBottom(ev) THEN done(LastIndex(c))
        ELSE IF Len(c.navItems) # 0 /\ CanStep(c, ev)
        THEN IF ~ev.rect.found
             THEN [index |-> c.currentIndex, recorded |-> FALSE,
                   thrown |-> TypeError]
             ELSE IF ScrollDirection(c, ev) = "down" /\ CrossedDown(c, ev)
             THEN done(c.currentIndex + 1)
             ELSE IF ScrollDirection(c, ev) = "up" /\ CrossedUp(c, ev)
             THEN done(c.currentIndex - 1)
             ELSE done(c.currentIndex)
        ELSE done(c.currentIndex)

\* The event goes to every listener in the order they were added; the state
\* setters of a later handler overwrite those of an earlier one.
RECURSIVE Dispatch(_, _, _)
Dispatch(ls, w, ev) ==
    IF ls = <<>> THEN w
    ELSE LET r == HandleScroll(Head(ls), ev)
         IN  Dispatch(Tail(ls),
                      [w EXCEPT !.currentIndex = r.index,
                                !.previousScrollTop =
                                    IF r.recorded THEN ev.scrollY ELSE @,
                                !.thrown = r.thrown],
                      ev)

\* React renders again only when a state cell holds a new value.
AfterSetState(w, before) ==
    IF w.currentIndex # before.currentIndex
       \/ w.previousScrollTop # before.previousScrollTop
    THEN Rerender(w)
    ELSE w

\* ------------------------------------------------------------- actions

Op(name, arg) ==
    [op |-> name, arg |-> arg, from |-> currentIndex, below |-> 0]

Started == [Now EXCEPT !.thrown = NoError]

\* Lines 109-118: the state cells of a hook that has not rendered yet.
InitWith(lists, boundaries, offsets) ==
    /\ children \in lists
    /\ enabled \in BOOLEAN
    /\ viewportBoundary \in boundaries
    /\ contentTopOffset \in offsets
    /\ sectionTitlePropName \in TitlePropNames
    /\ diveByPropName \in DivePropNames
    /\ currentIndex = 0
    /\ previousScrollTop = 0
    /\ childrenAsReactElement = children
    /\ navItems = <<>>
    /\ handleScroll = [currentIndex |-> 0, previousScrollTop |-> 0,
                       navItems |-> <<>>,
                       viewportBoundary |-> viewportBoundary,
                       contentTopOffset |-> contentTopOffset]
    /\ listeners = <<>>
    /\ cleanup = FALSE
    /\ status = "init"
    /\ thrown = NoError
    /\ last = [op |-> "none", arg |-> 0, from |-> 0, below |-> 0]

Init == InitWith(SectionLists, ValidBoundaries \cup InvalidBoundaries, Offsets)

\* The component renders for the first time.
Mount ==
    /\ status = "init"
    /\ Becomes(FirstRender(Started))
    /\ last' = Op("mount", 0)

\* The parent renders the component with another `enabled`.
SetEnabled(b) ==
    /\ status = "mounted"
    /\ b # enabled
    /\ Becomes(RenderProps([Started EXCEPT !.enabled = b], TRUE))
    /\ last' = Op("setEnabled", 0)

\* The parent renders the component with new children (a new array, whatever
\* it holds).
SetChildren(c) ==
    /\ status = "mounted"
    /\ Becomes(RenderProps([Started EXCEPT !.children = c], TRUE))
    /\ last' = Op("setChildren", 0)

\* The parent renders the component with another viewportBoundary.
SetViewportBoundary(b) ==
    /\ status = "mounted"
    /\ b # viewportBoundary
    /\ Becomes(RenderProps([Started EXCEPT !.viewportBoundary = b], FALSE))
    /\ last' = Op("setViewportBoundary", 0)

\* The parent renders the component with another contentTopOffset.
SetContentTopOffset(o) ==
    /\ status = "mounted"
    /\ o # contentTopOffset
    /\ Becomes(RenderProps([Started EXCEPT !.contentTopOffset = o], FALSE))
    /\ last' = Op("setContentTopOffset", 0)

\* The parent renders the component with other accessors.
SetAccessors(titleProp, dive) ==
    /\ status = "mounted"
    /\ <<titleProp, dive>> # <<sectionTitlePropName, diveByPropName>>
    /\ Becomes(RenderProps([Started EXCEPT !.sectionTitlePropName = titleProp,
                                           !.diveByPropName = dive], FALSE))
    /\ last' = Op("setAccessors", 0)

\* The window dispatches a scroll event to its listeners.
Scroll(ev) ==
    /\ status = "mounted"
    /\ listeners # <<>>
    /\ Becomes(AfterSetState(Dispatch(listeners, Started, ev), Now))
    /\ last' = [Op("scroll", ev.scrollY) EXCEPT
                   !.below = ev.scrollHeight - ev.scrollY - ev.innerHeight]

\* Line 223 with `>` for `>=`.
OutOfBoundsOffByOne(index, items) == index < 0 \/ index > Len(items)

\* Line 223.
OutOfBounds(index, items) == index < 0 \/ index >= Len(items)

\* Lines 221-227: the caller uses the exported setter of the last render.
SetCurrentIndexExported(index) ==
    /\ status = "mounted"
    /\ IF OutOfBounds(index, navItems)
       THEN Becomes([Started EXCEPT !.thrown = IndexOutOfBoundsError(index)])
       ELSE Becomes(AfterSetState([Started EXCEPT !.currentIndex = index], Now))
    /\ last' = Op("setCurrentIndex", index)

Next ==
    \/ Mount
    \/ \E b \in BOOLEAN : SetEnabled(b)
    \/ \E c \in LaterSectionLists : SetChildren(c)
    \/ \E b \in ValidBoundaries \cup InvalidBoundaries : SetViewportBoundary(b)
    \/ \E o \in Offsets : SetContentTopOffset(o)
    \/ \E ev \in ScrollEvents : Scroll(ev)
    \/ \E index \in -1..MaxIndexArg : SetCurrentIndexExported(index)

Spec == Init /\ [][Next]_vars

\* The catalog builder on its own: the hook on every list of BuildLists, with
\* the renders that run or steer the items effect.
InitBuild == InitWith(BuildLists, {3}, {0})

NextBuild ==
    \/ Mount
    \/ \E b \in BOOLEAN : SetEnabled(b)
    \/ \E c \in LaterSectionLists : SetChildren(c)
    \/ \E t \in TitlePropNames, d \in DivePropNames : SetAccessors(t, d)

SpecBuild == InitBuild /\ [][NextBuild]_vars

\* The crossing tests at the viewportBoundaries line 120 lets through, in
\* tenths: the hook on two and on three valid sections, with scroll events and
\* calls of the exported setter.  0.7 is left out: innerHeight * (1 - 0.7) is
\* 3.0000000000000004 in floating point, which no number of tenths is.
AllBoundaries == (0..10) \ {7}
CrossingLists == {<<Plain, WithId>>, <<Plain, WithId, Both>>}

InitCrossing == InitWith(CrossingLists, AllBoundaries, Offsets)

NextCrossing ==
    \/ Mount
    \/ \E ev \in ScrollEvents : Scroll(ev)
    \/ \E index \in -1..MaxIndexArg : SetCurrentIndexExported(index)

SpecCrossing == InitCrossing /\ [][NextCrossing]_vars

\* The hook under renders with another contentTopOffset, the offsets too large
\* for exact subtraction among them.
AnyOffsets == Offsets \cup {HugeOffset}

InitOffset == InitWith(CrossingLists, {3}, AnyOffsets)

NextOffset ==
    \/ Mount
    \/ \E o \in AnyOffsets : SetContentTopOffset(o)
    \/ \E ev \in ScrollEvents : Scroll(ev)
    \/ \E index \in -1..MaxIndexArg : SetCurrentIndexExported(index)

SpecOffset == InitOffset /\ [][NextOffset]_vars


\* -------------------------------------------------------------- properties

\* A step in which the items effect ran (lines 182-219): the first render, or
\* a render with new children or a new `enabled`, of an enabled hook whose
\* render did not throw.
BuildStep ==
    /\ status # "crashed"
    /\ last'.op \in {"mount", "setChildren", "setEnabled"}
    /\ enabled'
    /\ viewportBoundary' \in 0..10

HasOwnId(child) == child.props.id.t = "string" /\ child.props.id.s # <<>>

\* The label lower-cased, every space a hyphen, then "-section".
IsSlugOf(id, label) ==
    /\ Len(id) = Len(label) + 8
    /\ \A k \in 1..Len(label) :
          id[k] = (CASE label[k] = " " -> "-"
                     [] label[k] = "A" -> "a"
                     [] OTHER -> label[k])
    /\ SubSeq(id, Len(label) + 1, Len(id)) = <<"-", "s", "e", "c", "t", "i", "o", "n">>

\* C1: whenever navItems is non-empty, currentIndex is one of its indices.
C1_IndexInRange ==
    Len(navItems) > 0 => currentIndex \in 0..(Len(navItems) - 1)

\* A scroll event has moved the index of a three-item catalog to its last item.
C1_Witness ==
    /\ Len(navItems) = 3
    /\ last.op = "scroll"
    /\ last.from = 1
    /\ currentIndex = 2

\* C2: a call of the exported setter throws the range error exactly when index
\* < 0 or index >= navItems.length; then currentIndex keeps its value, and
\* otherwise it becomes index.
C2_SetterRange ==
    [][\A index \in -1..MaxIndexArg :
          (status = "mounted" /\ last'.op = "setCurrentIndex" /\ last'.arg = index)
          => IF index < 0 \/ index >= Len(navItems)
             THEN thrown' = IndexOutOfBoundsError(index) /\ currentIndex' = currentIndex
             ELSE thrown' = NoError /\ currentIndex' = index]_vars

\* setCurrentIndex(length) has failed on a three-item catalog and left the index.
C2_Witness ==
    /\ Len(navItems) = 3
    /\ last.op = "setCurrentIndex"
    /\ last.arg = 3
    /\ thrown = IndexOutOfBoundsError(3)
    /\ currentIndex = 1

\* C3: with a dive accessor, a build over sections whose nested element has a
\* string title succeeds, every label is that nested title, and a section
\* without an id gets the id derived from that nested title.
C3_DiveLabels ==
    [][(/\ BuildStep
        /\ diveByPropName' # NoDive
        /\ \A i \in 1..Len(childrenAsReactElement) :
              LET element == childrenAsReactElement[i].props[diveByPropName']
              IN  element.t = "element"
                  /\ element.props[sectionTitlePropName'].t = "string")
       => /\ status' = "mounted"
          /\ Len(navItems') = Len(childrenAsReactElement)
          /\ \A i \in 1..Len(childrenAsReactElement) :
                LET child == childrenAsReactElement[i]
                    title == child.props[diveByPropName'].props[sectionTitlePropName']
                IN  /\ navItems'[i].label = title
                    /\ HasOwnId(child) => navItems'[i].scrollTo = child.props.id
                    /\ ~HasOwnId(child) =>
                          /\ navItems'[i].scrollTo.t = "string"
                          /\ IsSlugOf(navItems'[i].scrollTo.s, title.s)]_vars

\* C4: a successful build without a dive accessor gives one item per section,
\* in order: the label is the section's title, scrollTo its own id if it has
\* one and else the slug of the label plus "-section"; no scrollTo is empty.
C4_Catalog ==
    [][(BuildStep /\ status' = "mounted" /\ diveByPropName' = NoDive)
       => /\ Len(navItems') = Len(childrenAsReactElement)
          /\ \A i \in 1..Len(childrenAsReactElement) :
                LET child == childrenAsReactElement[i]
                    item == navItems'[i]
                IN  /\ item.label = child.props[sectionTitlePropName']
                    /\ item.label.t = "string"
                    /\ item.scrollTo.t = "string"
                    /\ item.scrollTo.s # <<>>
                    /\ HasOwnId(child) => item.scrollTo = child.props.id
                    /\ ~HasOwnId(child) => IsSlugOf(item.scrollTo.s, item.label.s)]_vars

\* A build has given "A " the id "a--section" and kept the id of the section
\* after it.
C4_Witness ==
    /\ status = "mounted"
    /\ last.op = "mount"
    /\ diveByPropName = NoDive
    /\ Len(navItems) = 2
    /\ navItems[1] = [label |-> Str(<<"A", " ">>),
                      scrollTo |-> Str(<<"a", "-", "-", "s", "e", "c", "t", "i", "o", "n">>)]
    /\ navItems[2] = [label |-> Str(TitleC), scrollTo |-> Str(IdX)]

\* The title source of a section is absent, or its title is no string.
LacksTitle(child, titleProp, dive) ==
    LET source == IF dive # NoDive THEN child.props[dive] ELSE child
    IN  \/ (dive # NoDive /\ source.t # "element")
        \/ source.props[titleProp].t # "string"

\* C5: a build over sections one of which lacks its title throws the
\* missing-title error with the index of the first such section and the title
\* accessor, and leaves navItems and the annotated children as they were.
C5_FailFast ==
    [][(/\ BuildStep
        /\ \E i \in 1..Len(childrenAsReactElement) :
              LacksTitle(childrenAsReactElement[i], sectionTitlePropName',
                         diveByPropName'))
       => /\ status' = "crashed"
          /\ thrown'.name = "SectionTitlePropError"
          /\ thrown'.propName = sectionTitlePropName'
          /\ thrown'.index \in 0..(Len(childrenAsReactElement) - 1)
          /\ LacksTitle(childrenAsReactElement[thrown'.index + 1],
                        sectionTitlePropName', diveByPropName')
          /\ \A j \in 1..thrown'.index :
                ~LacksTitle(childrenAsReactElement[j], sectionTitlePropName',
                            diveByPropName')
          /\ navItems' = navItems
          /\ childrenAsReactElement' = childrenAsReactElement]_vars

\* A rebuild has failed on the second section and the catalog of the build
\* before it is still the one exposed.
C5_Witness ==
    /\ status = "crashed"
    /\ thrown = SectionTitlePropError(1, "label")
    /\ last.op = "setChildren"
    /\ Len(navItems) = 2
    /\ Len(childrenAsReactElement) = 2

\* C6: while enabled is false no scroll listener is attached and no scroll
\* event changes currentIndex.
C6_DisabledDetached ==
    [][(status' = "mounted" /\ ~enabled')
       => /\ listeners' = <<>>
          /\ last'.op = "scroll" => currentIndex' = currentIndex]_vars

\* C7: after a render with a new section list or new accessors, the catalog
\* has one item per section of the new list, in order, its label the title
\* under the new accessors.
C7_RebuildFollowsInput ==
    [][(/\ status = "mounted"
        /\ status' = "mounted"
        /\ enabled'
        /\ last'.op \in {"setChildren", "setAccessors"})
       => /\ Len(navItems') = Len(children')
          /\ \A i \in 1..Len(children') :
                LET source == IF diveByPropName' # NoDive
                              THEN children'[i].props[diveByPropName']
                              ELSE children'[i]
                IN  /\ diveByPropName' = NoDive \/ source.t = "element"
                    /\ navItems'[i].label = source.props[sectionTitlePropName']]_vars

\* C8: every attached scroll listener reads the current navItems,
\* viewportBoundary and contentTopOffset.
C8_FreshClosure ==
    \A i \in 1..Len(listeners) :
        /\ listeners[i].navItems = navItems
        /\ listeners[i].viewportBoundary = viewportBoundary
        /\ listeners[i].contentTopOffset = contentTopOffset

\* C9: never more than one scroll listener, and exactly one while the mounted
\* hook is enabled.
C9_OneListener ==
    /\ Len(listeners) <= 1
    /\ (status = "mounted" /\ enabled) => Len(listeners) = 1

\* A scroll event has changed the state of an enabled hook, so that the
\* listener effect has run again.
C9_Witness ==
    /\ status = "mounted"
    /\ enabled
    /\ last.op = "scroll"
    /\ previousScrollTop = 2
    /\ currentIndex = 1
    /\ Len(listeners) = 1
    /\ listeners[1].previousScrollTop = 2

\* C10: a scroll event with scrollY = 0 sets currentIndex to 0.
C10_TopRule ==
    [][(last'.op = "scroll" /\ last'.arg = 0) => currentIndex' = 0]_vars

\* A scroll event with scrollY = 0 has taken the index from 2 to 0.
C10_Witness ==
    /\ last.op = "scroll"
    /\ last.arg = 0
    /\ last.from = 2
    /\ currentIndex = 0

\* The step is the window's dispatch of the scroll event ev.
ScrollStep(ev) ==
    /\ last'.op = "scroll"
    /\ last'.arg = ev.scrollY
    /\ Scroll(ev)

\* C11: a scroll event with scrollY # 0 and scrollY + innerHeight = scrollHeight
\* sets currentIndex to navItems.length - 1, whatever it was.
C11_BottomRule ==
    [][(last'.op = "scroll" /\ last'.arg # 0 /\ last'.below = 0)
          => currentIndex' = Len(navItems) - 1]_vars

\* A scroll event below the top has taken the index of a three-item catalog
\* from 0 to 2: no crossing test moves it that far.
C11_Witness ==
    /\ last.op = "scroll"
    /\ last.arg # 0
    /\ last.below = 0
    /\ last.from = 0
    /\ Len(navItems) = 3
    /\ currentIndex = 2

\* C12: every scroll event changes currentIndex by at most one position.
C12_SingleStep ==
    [][last'.op = "scroll" => currentIndex' - currentIndex \in -1..1]_vars

\* C12, for the events it holds of: a scroll event with scrollY # 0 and
\* scrollY + innerHeight # scrollHeight changes currentIndex by at most one
\* position.
C12_SingleStepInside ==
    [][(last'.op = "scroll" /\ last'.arg # 0 /\ last'.below # 0)
          => currentIndex' - currentIndex \in -1..1]_vars

\* A scroll event at neither end of the document has moved the index from 1
\* to 2.
C12_Witness ==
    /\ last.op = "scroll"
    /\ last.arg # 0
    /\ last.below # 0
    /\ last.from = 1
    /\ currentIndex = 2

\* C13: a render with viewportBoundary below 0 or above 1 throws the
\* viewport-boundary error, and the first render throws it before a listener is
\* added and before navItems is built; no render with a viewportBoundary from 0
\* to 1, both ends included, throws it.
C13_BoundaryChecked ==
    [][(status # "crashed" /\ last'.op \notin {"scroll", "setCurrentIndex"})
          => IF viewportBoundary' < 0 \/ viewportBoundary' > 10
             THEN /\ status' = "crashed"
                  /\ thrown' = ViewportBoundaryError
                  /\ last'.op = "mount"
                       => /\ listeners' = <<>>
                          /\ navItems' = <<>>
                          /\ childrenAsReactElement' = children
             ELSE thrown' # ViewportBoundaryError]_vars

\* The first render of an enabled hook with viewportBoundary = 1.5 and three
\* valid sections has thrown.
C13_Witness ==
    /\ last.op = "mount"
    /\ viewportBoundary = 15
    /\ enabled
    /\ Len(children) = 3
    /\ status = "crashed"
    /\ thrown = ViewportBoundaryError
    /\ listeners = <<>>
    /\ navItems = <<>>

\* childrenAsReactElement is what an earlier run of the items effect left:
\* navItems, empty until the effect has run, has an item for every child.
Annotated ==
    /\ status = "mounted"
    /\ Len(childrenAsReactElement) > 0
    /\ Len(navItems) = Len(childrenAsReactElement)

\* C14: when the items effect runs on children it has annotated before, every
\* item gets the scrollTo it had and the children stay as they are; and on any
\* run a child that has an id of its own comes back as it was.
C14_BuildIdempotent ==
    [][(BuildStep /\ status' = "mounted")
          => /\ \A i \in 1..Len(childrenAsReactElement) :
                   HasOwnId(childrenAsReactElement[i])
                   => childrenAsReactElement'[i] = childrenAsReactElement[i]
             /\ Annotated
                   => /\ Len(navItems') = Len(navItems)
                      /\ \A i \in 1..Len(navItems) :
                            navItems'[i].scrollTo = navItems[i].scrollTo
                      /\ childrenAsReactElement' = childrenAsReactElement]_vars

\* The items effect has run again, after a render with new children, on a list
\* whose second child got the id "a-b-section" from the run before.
C14_Witness ==
    /\ last.op = "setChildren"
    /\ status = "mounted"
    /\ enabled
    /\ Len(navItems) = 2
    /\ childrenAsReactElement[1] = WithId
    /\ childrenAsReactElement[2] = CloneWithId(Plain, navItems[2].scrollTo)
    /\ navItems[2].scrollTo = Str(<<"a", "-", "b", "-", "s", "e", "c", "t", "i", "o", "n">>)

\* C15: on a scroll event at neither end of the document, downwards (scrollY >=
\* previousScrollTop) and with currentIndex below the last index, currentIndex
\* grows by one when offsetTop - scrollY - contentTopOffset of the next item's
\* element is at most innerHeight * viewportBoundary - contentTopOffset, and
\* keeps its value otherwise.
C15_DownwardCrossing ==
    [][\A ev \in ScrollEvents :
          (/\ ev.scrollY # 0
           /\ ev.scrollY + ev.innerHeight # ev.scrollHeight
           /\ ev.scrollY >= previousScrollTop
           /\ currentIndex < Len(navItems) - 1
           /\ ev.rect.found
           /\ ScrollStep(ev))
          => currentIndex' =
                IF 10 * (ev.rect.offsetTop - ev.scrollY - contentTopOffset)
                      <= ev.innerHeight * viewportBoundary - 10 * contentTopOffset
                THEN currentIndex + 1
                ELSE currentIndex]_vars

\* C16: a scroll event at neither end of the document goes up exactly when
\* scrollY < previousScrollTop.  Going up with currentIndex > 0, currentIndex
\* falls by one when the bottom of the previous item's element, relative to the
\* viewport, is at least innerHeight * (1 - viewportBoundary), and keeps its
\* value otherwise.  Going up with currentIndex = 0, or down with currentIndex
\* at the last index, currentIndex keeps its value and no element is looked up.
C16_UpwardCrossing ==
    [][\A ev \in ScrollEvents :
          (/\ ev.scrollY # 0
           /\ ev.scrollY + ev.innerHeight # ev.scrollHeight
           /\ ScrollStep(ev))
          => IF ev.scrollY < previousScrollTop
             THEN IF currentIndex > 0
                  THEN ev.rect.found
                       => currentIndex' =
                             IF 10 * ev.rect.bottom
                                   >= ev.innerHeight * (10 - viewportBoundary)
                             THEN currentIndex - 1
                             ELSE currentIndex
                  ELSE currentIndex' = currentIndex /\ thrown' = NoError
             ELSE currentIndex = Len(navItems) - 1
                  => currentIndex' = currentIndex /\ thrown' = NoError]_vars

\* C17: when the handler looks up the neighbour's element and there is none,
\* currentIndex keeps its value, the handler throws nothing, and
\* previousScrollTop becomes the event's scrollY.
C17_MissingElementSkipped ==
    [][\A ev \in ScrollEvents :
          (/\ ev.scrollY # 0
           /\ ev.scrollY + ev.innerHeight # ev.scrollHeight
           /\ \/ ev.scrollY < previousScrollTop /\ currentIndex > 0
              \/ ev.scrollY >= previousScrollTop
                    /\ currentIndex < Len(navItems) - 1
           /\ ~ev.rect.found
           /\ ScrollStep(ev))
          => /\ currentIndex' = currentIndex
             /\ thrown' = NoError
             /\ previousScrollTop' = ev.scrollY]_vars

\* C18: while navItems is empty, currentIndex is 0 after every scroll event,
\* the events at the bottom of the document included, and so never negative.
C18_EmptyCatalogStaysAtZero ==
    [][(last'.op = "scroll" /\ Len(navItems) = 0) => currentIndex' = 0]_vars

\* C19: after every scroll event previousScrollTop is that event's scrollY,
\* whichever branch of the handler the event took.
C19_PreviousScrollTopRecorded ==
    [][last'.op = "scroll" => previousScrollTop' = last'.arg]_vars

\* A handler of the hook as it is configured now, with index in its closure and
\* previousScrollTop = previous.
ClosureAt(index, previous) ==
    [currentIndex |-> index, previousScrollTop |-> previous,
     navItems |-> navItems, viewportBoundary |-> viewportBoundary,
     contentTopOffset |-> contentTopOffset]

\* Item i ends where item i + 1 begins, edge pixels below the top of the
\* viewport when the window is at scrollY = y: the event going down from i
\* finds the element of i + 1, whose offsetTop is y + edge; the event going up
\* from i + 1 finds the element of i, whose rectangle's bottom is edge.
DownAdvances(i, y, h, edge) ==
    HandleScroll(ClosureAt(i, y),
                 [scrollY |-> y, innerHeight |-> h, scrollHeight |-> y + h + 5,
                  rect |-> [found |-> TRUE, offsetTop |-> y + edge,
                            bottom |-> edge + h]]).index = i + 1

UpRetreats(i, y, h, edge) ==
    HandleScroll(ClosureAt(i + 1, y + 1),
                 [scrollY |-> y, innerHeight |-> h, scrollHeight |-> y + h + 5,
                  rect |-> [found |-> TRUE, offsetTop |-> y + edge - h,
                            bottom |-> edge]]).index = i

\* No two neighbouring items, scroll position and place of their common edge
\* in the viewport at which going down advances and going up retreats.
NoFlicker ==
    \A i \in 0..(Len(navItems) - 2), y \in 1..MaxScrollY, h \in InnerHeights :
       \A edge \in 0..h :
          ~(DownAdvances(i, y, h, edge) /\ UpRetreats(i, y, h, edge))

\* C20: for every viewportBoundary from 0 to 1 and two items one after the other
\* on the page, there is no scroll position at which a scroll event going down
\* advances from the first to the second and a scroll event going up retreats
\* from the second to the first.
C20_NoFlicker ==
    status = "mounted" => NoFlicker

\* C20, for the boundaries it holds of: the same with viewportBoundary below 0.5.
C20_NoFlickerBelowHalf ==
    (status = "mounted" /\ viewportBoundary < 5) => NoFlicker

\* With viewportBoundary = 0.3 a scroll event going down at scrollY = 1 has
\* advanced from item 0 to item 1, and with the common edge of the two 3 pixels
\* below the top of the viewport such an event advances and the event going up
\* does not retreat.
C20_Witness ==
    /\ status = "mounted"
    /\ viewportBoundary = 3
    /\ last.op = "scroll"
    /\ last.arg = 1
    /\ last.below # 0
    /\ last.from = 0
    /\ currentIndex = 1
    /\ DownAdvances(0, 1, 10, 3)
    /\ ~UpRetreats(0, 1, 10, 3)

\* The listeners ls as they are in a run whose contentTopOffset is offset.
WithOffset(ls, offset) ==
    [k \in 1..Len(ls) |-> [ls[k] EXCEPT !.contentTopOffset = offset]]

\* The scroll event ev leaves the currentIndex and the previousScrollTop that it
\* leaves in the run that is in the same state with contentTopOffset = offset.
SameAsWithOffset(ev, offset) ==
    LET other == Dispatch(WithOffset(listeners, offset), Started, ev)
    IN  /\ currentIndex' = other.currentIndex
        /\ previousScrollTop' = other.previousScrollTop

============================================================================
